---- MODULE Spec2Model ----
(***************************************************************************)
(* A model of atum (include/atum.hpp): lifetime wrappers for globals.      *)
(*                                                                         *)
(*   lazy_init          thread-safe construct-on-first-use, keyed by the   *)
(*                      template arguments (Tag, T, Initializer)           *)
(*   nifty_init         atomic reference count around one storage cell     *)
(*   scoped_initializer RAII fold over a pack of initializables            *)
(*   manual_init        explicit initialize()/destroy()                    *)
(*                                                                         *)
(* Each wrapper has its own next-state relation and specification; the     *)
(* variables of the other wrappers keep their initial values.              *)
(*                                                                         *)
(* T's constructor and destructor return normally in lazy_init, nifty_init *)
(* and manual_init; the entities of a scoped_initializer may throw from    *)
(* initialize() and destroy().                                             *)
(***************************************************************************)
EXTENDS Integers, Sequences, FiniteSets

\* ---------------------------------------------------------------- bounds
NumThreads == 3
MaxLazyCalls == 3
MaxLazyDestroys == 1
MaxClaims == 3
MaxGets == 2
NumInits == 3
MaxScopes == 2
MaxManualOps == 5
MaxUnmatched == 1

Threads == 1 .. NumThreads

\* Two lazy_init objects declared with the same (Tag, T, Initializer).
LazyInsts == {1, 2}

\* The pack Inits... of a scoped_initializer, by position.
Inits == 1 .. NumInits

\* Two manual_init objects.
ManualInsts == {1, 2}

VARIABLES
    checked,          \* ATUM_CHECK_LIFETIME
    process,          \* "running" | "assert_failed" | "crashed" | "terminated"
    \* ---- lazy_init<Tag, T, Initializer>
    lazy_guard,       \* guard of the function-local static: "uninit" | "inprogress" | "done"
    lazy_initializer, \* value of the static `initializer` (0: zero-initialized)
    lazy_storage,     \* per object: state of _storage
    lazy_pc,          \* per thread: position inside initialize()/get()
    lazy_this,        \* per thread: the object the call is made on (0: none)
    lazy_op,          \* per thread: "initialize" | "get"
    lazy_ret,         \* per thread: what the last get() returned
    lazy_ctors,       \* number of times Initializer::init was entered
    lazy_calls,       \* number of initialize()/get() calls issued
    lazy_used,        \* objects on which initialize()/get() was called
    lazy_destroys,    \* number of destroy() calls
    lazy_leaked,      \* objects on which destroy() was called while their T was live
    lazy_after,       \* per thread: its call began after such a destroy() on its object
    \* ---- nifty_init<T, Initializer>, one nifty_counter_for per thread
    nifty_count,      \* std::atomic<int> _count
    nifty_storage,    \* state of _storage: "raw" | "constructing" | "live" | "destructing" | "dead"
    nifty_pc,         \* per thread: position inside initialize()/destroy()
    nifty_held,       \* per thread: its counter object exists (claim not yet released)
    nifty_got,        \* per thread: what the last get() referred to
    nifty_ctors,      \* number of times Initializer::init was entered
    nifty_dtors,      \* number of times ~T() was entered
    nifty_zeroClaims, \* number of increments that found the count at 0
    nifty_zeroReleases, \* number of decrements that left the count at 0
    nifty_claims,     \* number of initialize() calls issued
    nifty_gets,       \* number of get() calls issued
    nifty_first,      \* thread of the latest increment that found 0 (0: none)
    nifty_race,       \* a constructor or destructor ran on storage in the wrong state
    \* ---- scoped_initializer<Inits...>
    scoped_pc,        \* "outside" | "entering" | "inside" | "leaving" | "left" | "unwound"
    scoped_todo,      \* operands of the fold expression still to be evaluated
    scoped_log,       \* calls made by the current scoped_initializer object
    scoped_exit,      \* how the scope was left: "none" | "normal" | "exception"
    scoped_out,       \* per entity: initialize() calls returned minus destroy() calls returned
    scoped_count,     \* number of scoped_initializer objects created
    \* ---- manual_init<T, Initializer>
    manual_initialized, \* per object: bool _initialized (checked builds only)
    manual_storage,   \* per object: state of _storage: "raw" | "live" | "dead"
    manual_obj,       \* per object: which construction made the T in _storage (0: none)
    manual_ctors,     \* per object: number of times Initializer::init ran
    manual_dtors,     \* per object: number of times ~T() ran
    manual_reinit,    \* number of constructions over a live T
    manual_last,      \* per object: last lifecycle call: "none" | "initialize" | "destroy"
    manual_ret,       \* outcome of the last get()
    manual_ops        \* number of calls issued

lazy_vars == <<lazy_guard, lazy_initializer, lazy_storage, lazy_pc, lazy_this,
               lazy_op, lazy_ret, lazy_ctors, lazy_calls, lazy_used, lazy_destroys,
               lazy_leaked, lazy_after>>

nifty_vars == <<nifty_count, nifty_storage, nifty_pc, nifty_held, nifty_got,
                nifty_ctors, nifty_dtors, nifty_zeroClaims, nifty_zeroReleases,
                nifty_claims, nifty_gets, nifty_first, nifty_race>>

scoped_vars == <<scoped_pc, scoped_todo, scoped_log, scoped_exit, scoped_out,
                 scoped_count>>

manual_vars == <<manual_initialized, manual_storage, manual_obj, manual_ctors,
                 manual_dtors, manual_reinit, manual_last, manual_ret, manual_ops>>

vars == <<checked, process, lazy_vars, nifty_vars, scoped_vars, manual_vars>>

lazy_frame == UNCHANGED <<nifty_vars, scoped_vars, manual_vars>>

nifty_frame == UNCHANGED <<lazy_vars, scoped_vars, manual_vars>>

scoped_frame == UNCHANGED <<lazy_vars, nifty_vars, manual_vars>>

manual_frame == UNCHANGED <<lazy_vars, nifty_vars, scoped_vars>>

NoRet == [ref |-> 0, live |-> FALSE]

lazy_Init ==
    /\ lazy_guard = "uninit"
    /\ lazy_initializer = 0
    /\ lazy_storage = [i \in LazyInsts |-> "raw"]
    /\ lazy_pc = [t \in Threads |-> "idle"]
    /\ lazy_this = [t \in Threads |-> 0]
    /\ lazy_op = [t \in Threads |-> "none"]
    /\ lazy_ret = [t \in Threads |-> NoRet]
    /\ lazy_ctors = 0
    /\ lazy_calls = 0
    /\ lazy_used = {}
    /\ lazy_destroys = 0
    /\ lazy_leaked = {}
    /\ lazy_after = [t \in Threads |-> FALSE]

\* constexpr nifty_init() : _count(0) {}
nifty_Init ==
    /\ nifty_count = 0
    /\ nifty_storage = "raw"
    /\ nifty_pc = [t \in Threads |-> "idle"]
    /\ nifty_held = [t \in Threads |-> FALSE]
    /\ nifty_got = [t \in Threads |-> "none"]
    /\ nifty_ctors = 0
    /\ nifty_dtors = 0
    /\ nifty_zeroClaims = 0
    /\ nifty_zeroReleases = 0
    /\ nifty_claims = 0
    /\ nifty_gets = 0
    /\ nifty_first = 0
    /\ nifty_race = FALSE

scoped_Init ==
    /\ scoped_pc = "outside"
    /\ scoped_todo = <<>>
    /\ scoped_log = <<>>
    /\ scoped_exit = "none"
    /\ scoped_out = [e \in Inits |-> 0]
    /\ scoped_count = 0

NoGet == [self |-> 0, via |-> "none", ref |-> 0, obj |-> 0, latest |-> 0,
          after |-> "none", failed |-> FALSE]

\* constexpr manual_init() = default;  bool _initialized = false;
manual_Init ==
    /\ manual_initialized = [i \in ManualInsts |-> FALSE]
    /\ manual_storage = [i \in ManualInsts |-> "raw"]
    /\ manual_obj = [i \in ManualInsts |-> 0]
    /\ manual_ctors = [i \in ManualInsts |-> 0]
    /\ manual_dtors = [i \in ManualInsts |-> 0]
    /\ manual_reinit = 0
    /\ manual_last = [i \in ManualInsts |-> "none"]
    /\ manual_ret = NoGet
    /\ manual_ops = 0

Init ==
    /\ checked \in BOOLEAN
    /\ process = "running"
    /\ lazy_Init
    /\ nifty_Init
    /\ scoped_Init
    /\ manual_Init

\* ================================================================ lazy_init
GuardAcquirable_retaken(g) == g # "done"

\* A thread reaching the declaration of a function-local static performs the
\* initialization iff no initialization has been started.
GuardAcquirable(g) == g = "uninit"

GuardPassable_nowait(g) == g # "uninit"

\* ... and skips the declaration iff the initialization has completed;
\* otherwise it waits.
GuardPassable(g) == g = "done"

InitializerValue_flag(self) == 1

\* The value the static is initialized with: `this` or `true`.
InitializerValue(self) == IF checked THEN self ELSE 1

\* Where control goes after the static declaration.
AfterStatic == IF checked THEN "assert" ELSE "return"

\* A thread calls obj.initialize() or obj.get(); get() calls initialize().
lazy_call(t, i, op) ==
    /\ process = "running"
    /\ lazy_frame
    /\ lazy_after' = [lazy_after EXCEPT ![t] = i \in lazy_leaked]
    /\ UNCHANGED lazy_leaked
    /\ lazy_pc[t] = "idle"
    /\ lazy_calls < MaxLazyCalls
    /\ lazy_pc' = [lazy_pc EXCEPT ![t] = "static"]
    /\ lazy_this' = [lazy_this EXCEPT ![t] = i]
    /\ lazy_op' = [lazy_op EXCEPT ![t] = op]
    /\ lazy_ret' = [lazy_ret EXCEPT ![t] = NoRet]
    /\ lazy_calls' = lazy_calls + 1
    /\ lazy_used' = lazy_used \cup {i}
    /\ UNCHANGED <<checked, process, lazy_guard, lazy_initializer, lazy_storage,
                   lazy_ctors, lazy_destroys>>

lazy_static_enter_perObject(t) ==
    /\ process = "running"
    /\ lazy_frame
    /\ UNCHANGED <<lazy_leaked, lazy_after>>
    /\ lazy_pc[t] = "static"
    /\ \/ /\ GuardAcquirable(lazy_guard)
             \/ (GuardPassable(lazy_guard) /\ lazy_storage[lazy_this[t]] = "raw")
          /\ lazy_guard' = "inprogress"
          /\ lazy_storage' = [lazy_storage EXCEPT ![lazy_this[t]] = "constructing"]
          /\ lazy_ctors' = lazy_ctors + 1
          /\ lazy_pc' = [lazy_pc EXCEPT ![t] = "init"]
       \/ /\ GuardPassable(lazy_guard) /\ lazy_storage[lazy_this[t]] # "raw"
          /\ lazy_pc' = [lazy_pc EXCEPT ![t] = AfterStatic]
          /\ UNCHANGED <<lazy_guard, lazy_storage, lazy_ctors>>
    /\ UNCHANGED <<checked, process, lazy_initializer, lazy_this, lazy_op,
                   lazy_ret, lazy_calls, lazy_used, lazy_destroys>>

\* Control reaches `static ... initializer = (init(...), this)`.
lazy_static_enter(t) ==
    /\ process = "running"
    /\ lazy_frame
    /\ UNCHANGED <<lazy_leaked, lazy_after>>
    /\ lazy_pc[t] = "static"
    /\ \/ /\ GuardAcquirable(lazy_guard)
          /\ lazy_guard' = "inprogress"
          /\ lazy_storage' = [lazy_storage EXCEPT ![lazy_this[t]] = "constructing"]
          /\ lazy_ctors' = lazy_ctors + 1
          /\ lazy_pc' = [lazy_pc EXCEPT ![t] = "init"]
       \/ /\ GuardPassable(lazy_guard)
          /\ lazy_pc' = [lazy_pc EXCEPT ![t] = AfterStatic]
          /\ UNCHANGED <<lazy_guard, lazy_storage, lazy_ctors>>
    /\ UNCHANGED <<checked, process, lazy_initializer, lazy_this, lazy_op,
                   lazy_ret, lazy_calls, lazy_used, lazy_destroys>>

\* Initializer::init<T>(_storage.memory()) returns: T is constructed.
lazy_init_done(t) ==
    /\ process = "running"
    /\ lazy_frame
    /\ UNCHANGED <<lazy_leaked, lazy_after>>
    /\ lazy_pc[t] = "init"
    /\ lazy_storage' = [lazy_storage EXCEPT ![lazy_this[t]] = "live"]
    /\ lazy_pc' = [lazy_pc EXCEPT ![t] = "publish"]
    /\ UNCHANGED <<checked, process, lazy_guard, lazy_initializer, lazy_this,
                   lazy_op, lazy_ret, lazy_ctors, lazy_calls, lazy_used,
                   lazy_destroys>>

lazy_static_publish_held(t) ==
    /\ process = "running"
    /\ lazy_frame
    /\ UNCHANGED <<lazy_leaked, lazy_after>>
    /\ lazy_pc[t] = "publish"
    /\ lazy_initializer' = InitializerValue(lazy_this[t])
    /\ lazy_guard' = lazy_guard
    /\ lazy_pc' = [lazy_pc EXCEPT ![t] = AfterStatic]
    /\ UNCHANGED <<checked, process, lazy_storage, lazy_this, lazy_op, lazy_ret,
                   lazy_ctors, lazy_calls, lazy_used, lazy_destroys>>

\* The static receives its value and its guard is released.
lazy_static_publish(t) ==
    /\ process = "running"
    /\ lazy_frame
    /\ UNCHANGED <<lazy_leaked, lazy_after>>
    /\ lazy_pc[t] = "publish"
    /\ lazy_initializer' = InitializerValue(lazy_this[t])
    /\ lazy_guard' = "done"
    /\ lazy_pc' = [lazy_pc EXCEPT ![t] = AfterStatic]
    /\ UNCHANGED <<checked, process, lazy_storage, lazy_this, lazy_op, lazy_ret,
                   lazy_ctors, lazy_calls, lazy_used, lazy_destroys>>

\* ATUM_LIFETIME_ASSERT(initializer == this)
lazy_assert(t) ==
    /\ process = "running"
    /\ lazy_frame
    /\ UNCHANGED <<lazy_leaked, lazy_after>>
    /\ lazy_pc[t] = "assert"
    /\ IF lazy_initializer = lazy_this[t]
         THEN /\ lazy_pc' = [lazy_pc EXCEPT ![t] = "return"]
              /\ UNCHANGED process
         ELSE /\ process' = "assert_failed"
              /\ UNCHANGED lazy_pc
    /\ UNCHANGED <<checked, lazy_guard, lazy_initializer, lazy_storage, lazy_this,
                   lazy_op, lazy_ret, lazy_ctors, lazy_calls, lazy_used,
                   lazy_destroys>>

\* initialize() returns; get() then returns _storage.get().
lazy_return(t) ==
    /\ process = "running"
    /\ lazy_frame
    /\ lazy_after' = [lazy_after EXCEPT ![t] = @ /\ lazy_op[t] = "get"]
    /\ UNCHANGED lazy_leaked
    /\ lazy_pc[t] = "return"
    /\ lazy_pc' = [lazy_pc EXCEPT ![t] = "idle"]
    /\ lazy_this' = [lazy_this EXCEPT ![t] = 0]
    /\ lazy_op' = [lazy_op EXCEPT ![t] = "none"]
    /\ lazy_ret' = [lazy_ret EXCEPT ![t] =
                      IF lazy_op[t] = "get"
                        THEN [ref |-> lazy_this[t],
                              live |-> lazy_storage[lazy_this[t]] = "live"]
                        ELSE NoRet]
    /\ UNCHANGED <<checked, process, lazy_guard, lazy_initializer, lazy_storage,
                   lazy_ctors, lazy_calls, lazy_used, lazy_destroys>>

lazy_destroy_destructs(t, i) ==
    /\ process = "running"
    /\ lazy_frame
    /\ lazy_leaked' = IF lazy_storage[i] = "live" THEN lazy_leaked \cup {i}
                                                 ELSE lazy_leaked
    /\ UNCHANGED lazy_after
    /\ lazy_pc[t] = "idle"
    /\ lazy_destroys < MaxLazyDestroys
    /\ lazy_destroys' = lazy_destroys + 1
    /\ lazy_storage' = [lazy_storage EXCEPT ![i] =
                           IF @ = "live" THEN "dead" ELSE @]
    /\ UNCHANGED <<checked, process, lazy_guard, lazy_initializer,
                   lazy_pc, lazy_this, lazy_op, lazy_ret, lazy_ctors, lazy_calls,
                   lazy_used>>

\* destroy() && noexcept { /* leak */ }
lazy_destroy(t, i) ==
    /\ process = "running"
    /\ lazy_frame
    /\ lazy_leaked' = IF lazy_storage[i] = "live" THEN lazy_leaked \cup {i}
                                                 ELSE lazy_leaked
    /\ UNCHANGED lazy_after
    /\ lazy_pc[t] = "idle"
    /\ lazy_destroys < MaxLazyDestroys
    /\ lazy_destroys' = lazy_destroys + 1
    /\ UNCHANGED <<checked, process, lazy_guard, lazy_initializer, lazy_storage,
                   lazy_pc, lazy_this, lazy_op, lazy_ret, lazy_ctors, lazy_calls,
                   lazy_used>>

lazy_step(t) ==
    \/ \E i \in LazyInsts, op \in {"initialize", "get"} : lazy_call(t, i, op)
    \/ lazy_static_enter(t)
    \/ lazy_init_done(t)
    \/ lazy_static_publish(t)
    \/ lazy_assert(t)
    \/ lazy_return(t)
    \/ \E i \in LazyInsts : lazy_destroy(t, i)

NextLazy == \E t \in Threads : lazy_step(t)

SpecLazy == Init /\ [][NextLazy]_vars

\* C1: on a lazy_init object that is the only one of its key, T is
\* constructed at most once in every interleaving, and every get() that has
\* returned yields the reference to that one object, fully constructed.
C1_ExactlyOnce ==
    /\ lazy_ctors <= 1
    /\ Cardinality(lazy_used) <= 1 =>
          \A t \in Threads :
              lazy_ret[t] # NoRet =>
                  /\ lazy_ret[t].ref \in lazy_used
                  /\ lazy_ret[t].live
                  /\ lazy_ctors = 1

\* Every thread made its first call, a get() on the same object, and returned.
C1_Witness ==
    /\ Cardinality(lazy_used) = 1
    /\ lazy_calls = NumThreads
    /\ \A t \in Threads : lazy_ret[t] # NoRet

\* C2: while the construction is in progress no initialize()/get() has got
\* past the static declaration or returned, and at most one thread is
\* constructing.
C2_WaitForConstruction ==
    /\ \A t \in Threads :
          (lazy_pc[t] \in {"assert", "return"} \/ lazy_ret[t] # NoRet)
              => lazy_guard = "done"
    /\ Cardinality({t \in Threads : lazy_pc[t] \in {"init", "publish"}}) <= 1

\* Two threads wait at the declaration while a third is constructing.
C2_Witness ==
    \E t, u \in Threads :
        /\ t # u
        /\ lazy_pc[t] = "static"
        /\ lazy_pc[u] = "init"
        /\ lazy_guard = "inprogress"

\* ================================================================ nifty_init
\* Each thread owns one nifty_counter_for<Nifty> = scoped_initializer<Nifty>:
\* creating it calls Nifty.initialize(), destroying it calls Nifty.destroy().

FirstOne_offByOne(old) == old <= 1

\* if (_count++ == 0)
FirstOne(old) == old = 0

LastOne_offByOne(new) == new = 1

LastOne_postDecrement(new) == new + 1 = 0

\* if (--_count == 0)
LastOne(new) == new = 0

\* Constructing into storage that holds a live T or that a constructor or
\* destructor is working on.
ConstructUndefined(storage) == storage \in {"live", "constructing", "destructing"}

\* Running ~T() on storage that does not hold a live T.
DestructUndefined(storage) == storage # "live"

\* What follows undefined behaviour: the process goes on with the storage as
\* written last, or crashes.
UndefinedOutcome(undefined) ==
    IF undefined THEN {"running", "crashed"} ELSE {"running"}

nifty_initialize_firstOnly(t) ==
    /\ process = "running"
    /\ nifty_frame
    /\ nifty_pc[t] = "idle"
    /\ ~nifty_held[t]
    /\ nifty_claims < MaxClaims
    /\ nifty_count' = IF nifty_count = 0 THEN 1 ELSE nifty_count
    /\ nifty_held' = [nifty_held EXCEPT ![t] = TRUE]
    /\ nifty_claims' = nifty_claims + 1
    /\ nifty_got' = [nifty_got EXCEPT ![t] = "none"]
    /\ nifty_zeroClaims' = nifty_zeroClaims + (IF nifty_count = 0 THEN 1 ELSE 0)
    /\ nifty_first' = IF nifty_count = 0 THEN t ELSE nifty_first
    /\ nifty_pc' = [nifty_pc EXCEPT ![t] =
                      IF FirstOne(nifty_count) THEN "construct" ELSE "idle"]
    /\ UNCHANGED <<checked, process, nifty_storage, nifty_ctors, nifty_dtors,
                   nifty_zeroReleases, nifty_gets, nifty_race>>

\* nifty_counter_for(): Nifty.initialize() up to the atomic post-increment.
nifty_initialize(t) ==
    /\ process = "running"
    /\ nifty_frame
    /\ nifty_pc[t] = "idle"
    /\ ~nifty_held[t]
    /\ nifty_claims < MaxClaims
    /\ nifty_count' = nifty_count + 1
    /\ nifty_held' = [nifty_held EXCEPT ![t] = TRUE]
    /\ nifty_claims' = nifty_claims + 1
    /\ nifty_got' = [nifty_got EXCEPT ![t] = "none"]
    /\ nifty_zeroClaims' = nifty_zeroClaims + (IF nifty_count = 0 THEN 1 ELSE 0)
    /\ nifty_first' = IF nifty_count = 0 THEN t ELSE nifty_first
    /\ nifty_pc' = [nifty_pc EXCEPT ![t] =
                      IF FirstOne(nifty_count) THEN "construct" ELSE "idle"]
    /\ UNCHANGED <<checked, process, nifty_storage, nifty_ctors, nifty_dtors,
                   nifty_zeroReleases, nifty_gets, nifty_race>>

\* Initializer::init<T>(_storage.memory()) is entered.
nifty_construct_begin(t) ==
    /\ process = "running"
    /\ nifty_frame
    /\ nifty_pc[t] = "construct"
    /\ LET undefined == ConstructUndefined(nifty_storage) IN
         /\ nifty_race' = (nifty_race \/ undefined)
         /\ process' \in UndefinedOutcome(undefined)
    /\ nifty_storage' = "constructing"
    /\ nifty_ctors' = nifty_ctors + 1
    /\ nifty_pc' = [nifty_pc EXCEPT ![t] = "constructing"]
    /\ UNCHANGED <<checked, nifty_count, nifty_held, nifty_got, nifty_dtors,
                   nifty_zeroClaims, nifty_zeroReleases, nifty_claims,
                   nifty_gets, nifty_first>>

\* Initializer::init returns, initialize() returns.
nifty_construct_end(t) ==
    /\ process = "running"
    /\ nifty_frame
    /\ nifty_pc[t] = "constructing"
    /\ nifty_storage' = "live"
    /\ nifty_pc' = [nifty_pc EXCEPT ![t] = "idle"]
    /\ UNCHANGED <<checked, process, nifty_count, nifty_held, nifty_got,
                   nifty_ctors, nifty_dtors, nifty_zeroClaims,
                   nifty_zeroReleases, nifty_claims, nifty_gets, nifty_first,
                   nifty_race>>

\* ~nifty_counter_for(): Nifty.destroy() up to the atomic pre-decrement.
nifty_destroy(t) ==
    /\ process = "running"
    /\ nifty_frame
    /\ nifty_pc[t] = "idle"
    /\ nifty_held[t]
    /\ nifty_count' = nifty_count - 1
    /\ nifty_held' = [nifty_held EXCEPT ![t] = FALSE]
    /\ nifty_zeroReleases' = nifty_zeroReleases + (IF nifty_count = 1 THEN 1 ELSE 0)
    /\ nifty_pc' = [nifty_pc EXCEPT ![t] =
                      IF LastOne(nifty_count - 1) THEN "destruct" ELSE "idle"]
    /\ UNCHANGED <<checked, process, nifty_storage, nifty_got, nifty_ctors,
                   nifty_dtors, nifty_zeroClaims, nifty_claims, nifty_gets,
                   nifty_first, nifty_race>>

\* _storage.get().~T() is entered.
nifty_destruct_begin(t) ==
    /\ process = "running"
    /\ nifty_frame
    /\ nifty_pc[t] = "destruct"
    /\ LET undefined == DestructUndefined(nifty_storage) IN
         /\ nifty_race' = (nifty_race \/ undefined)
         /\ process' \in UndefinedOutcome(undefined)
    /\ nifty_storage' = "destructing"
    /\ nifty_dtors' = nifty_dtors + 1
    /\ nifty_pc' = [nifty_pc EXCEPT ![t] = "destructing"]
    /\ UNCHANGED <<checked, nifty_count, nifty_held, nifty_got, nifty_ctors,
                   nifty_zeroClaims, nifty_zeroReleases, nifty_claims,
                   nifty_gets, nifty_first>>

\* ~T() returns, destroy() returns.
nifty_destruct_end(t) ==
    /\ process = "running"
    /\ nifty_frame
    /\ nifty_pc[t] = "destructing"
    /\ nifty_storage' = "dead"
    /\ nifty_pc' = [nifty_pc EXCEPT ![t] = "idle"]
    /\ UNCHANGED <<checked, process, nifty_count, nifty_held, nifty_got,
                   nifty_ctors, nifty_dtors, nifty_zeroClaims,
                   nifty_zeroReleases, nifty_claims, nifty_gets, nifty_first,
                   nifty_race>>

\* get(), by a thread whose own initialize() has returned:
\* ATUM_LIFETIME_ASSERT(_count > 0); return _storage.get();
nifty_get(t) ==
    /\ process = "running"
    /\ nifty_frame
    /\ nifty_pc[t] = "idle"
    /\ nifty_held[t]
    /\ nifty_gets < MaxGets
    /\ nifty_gets' = nifty_gets + 1
    /\ IF checked /\ ~(nifty_count > 0)
         THEN /\ process' = "assert_failed"
              /\ UNCHANGED nifty_got
         ELSE /\ nifty_got' = [nifty_got EXCEPT ![t] = nifty_storage]
              /\ UNCHANGED process
    /\ UNCHANGED <<checked, nifty_count, nifty_storage, nifty_pc, nifty_held,
                   nifty_ctors, nifty_dtors, nifty_zeroClaims,
                   nifty_zeroReleases, nifty_claims, nifty_first, nifty_race>>

nifty_step(t) ==
    \/ nifty_initialize(t)
    \/ nifty_construct_begin(t)
    \/ nifty_construct_end(t)
    \/ nifty_destroy(t)
    \/ nifty_destruct_begin(t)
    \/ nifty_destruct_end(t)
    \/ nifty_get(t)

\* Threads run in parallel.
NextNifty == \E t \in Threads : nifty_step(t)

SpecNifty == Init /\ [][NextNifty]_vars

\* The calls do not overlap: a call starts only when no other is running.
Alone(t) == \A u \in Threads \ {t} : nifty_pc[u] = "idle"

NextNiftySeq ==
    \E t \in Threads :
        \/ Alone(t) /\ nifty_initialize(t)
        \/ Alone(t) /\ nifty_construct_begin(t)
        \/ Alone(t) /\ nifty_construct_end(t)
        \/ Alone(t) /\ nifty_destroy(t)
        \/ Alone(t) /\ nifty_destruct_begin(t)
        \/ Alone(t) /\ nifty_destruct_end(t)
        \/ Alone(t) /\ nifty_get(t)

SpecNiftySeq == Init /\ [][NextNiftySeq]_vars

AllIdle == \A t \in Threads : nifty_pc[t] = "idle"

\* The counter object of thread t is in scope: its constructor has returned
\* and its destructor has not been entered.
InScope(t) == nifty_held[t] /\ nifty_pc[t] = "idle"

\* C3 (as claimed): with every destroy() preceded by its own initialize(), T is
\* constructed once and destructed once; stated for the histories in which
\* every constructor and destructor found the storage in the right state.
C3_Original ==
    ~nifty_race => (nifty_ctors <= 1 /\ nifty_dtors <= 1)

\* C3 (amended): T is constructed exactly once for each initialize() that
\* found the count at 0, the first initialize() being one of them, and
\* destructed exactly once for each destroy() that left the count at 0; when
\* all counters are gone there were as many destructions as constructions.
C3_OncePerZeroCrossing ==
    /\ nifty_ctors + Cardinality({t \in Threads : nifty_pc[t] = "construct"})
          = nifty_zeroClaims
    /\ nifty_dtors + Cardinality({t \in Threads : nifty_pc[t] = "destruct"})
          = nifty_zeroReleases
    /\ nifty_claims >= 1 => nifty_zeroClaims >= 1
    /\ (AllIdle /\ nifty_count = 0) => nifty_ctors = nifty_dtors

\* A finished history in which the count left zero twice and came back twice.
C3_Witness ==
    /\ AllIdle
    /\ nifty_count = 0
    /\ nifty_ctors = 2
    /\ nifty_dtors = 2
    /\ nifty_claims >= 3

\* C4 (as claimed): whenever an initialize() has returned, or a get() has
\* passed its check, T is constructed.
C4_ConstructedBeforeReturn ==
    \A t \in Threads :
        /\ InScope(t) => nifty_storage = "live"
        /\ nifty_got[t] # "none" => nifty_got[t] = "live"

\* C5 (as claimed): no construction is entered while T is live or while a
\* destruction is pending or running, and no destruction is entered on
\* storage that holds no live T.
C5_RaceFreeBoundaries ==
    /\ ~nifty_race
    /\ \A t, u \in Threads :
          ~(/\ t # u
            /\ nifty_pc[t] = "constructing"
            /\ nifty_pc[u] \in {"destruct", "destructing"})

\* C6: when the counter objects are created and destroyed one after the other,
\* in any order, T is live whenever at least one of them is in scope.
C6_AliveWhileInScope ==
    (\E t \in Threads : InScope(t)) => nifty_storage = "live"

\* The counter that constructed T has gone, a later one is still in scope.
C6_Witness ==
    /\ AllIdle
    /\ nifty_first = 1
    /\ ~nifty_held[1]
    /\ InScope(2)
    /\ nifty_zeroClaims = 1
    /\ nifty_zeroReleases = 0
    /\ nifty_storage = "live"

\* ======================================================= scoped_initializer
RECURSIVE CommaFold(_)
\* (Inits.initialize(), ...): E_k , (E_k+1 , ...); the left operand of a comma
\* is evaluated before the right one.
CommaFold(k) ==
    IF k > NumInits THEN <<>> ELSE <<k>> \o CommaFold(k + 1)

RECURSIVE AssignFold_leftFirst(_)
AssignFold_leftFirst(k) ==
    IF k > NumInits THEN <<>> ELSE <<k>> \o AssignFold_leftFirst(k + 1)

RECURSIVE AssignFold(_)
\* ((Inits.destroy(), dummy) = ... = 0): E_k = (E_k+1 = ...); the right operand
\* of an assignment is evaluated before the left one.
AssignFold(k) ==
    IF k > NumInits THEN <<>> ELSE AssignFold(k + 1) \o <<k>>

Call(op, e, ok) == [op |-> op, ent |-> e, ok |-> ok]

\* A scoped_initializer object is declared: its constructor is entered.
scoped_enter ==
    /\ process = "running"
    /\ scoped_frame
    /\ scoped_pc \in {"outside", "left", "unwound"}
    /\ scoped_count < MaxScopes
    /\ scoped_count' = scoped_count + 1
    /\ scoped_pc' = "entering"
    /\ scoped_todo' = CommaFold(1)
    /\ scoped_log' = <<>>
    /\ scoped_exit' = "none"
    /\ UNCHANGED <<checked, process, scoped_out>>

scoped_initialize_cleanup(raises) ==
    /\ process = "running"
    /\ scoped_frame
    /\ scoped_pc = "entering"
    /\ scoped_todo # <<>>
    /\ LET e == Head(scoped_todo) IN
         /\ scoped_log' = Append(scoped_log, Call("initialize", e, ~raises))
         /\ IF raises
              THEN /\ scoped_pc' = "leaving"
                   /\ scoped_todo' = AssignFold(1)
                   /\ UNCHANGED scoped_out
              ELSE /\ scoped_pc' = IF Tail(scoped_todo) = <<>> THEN "inside"
                                                             ELSE "entering"
                   /\ scoped_todo' = Tail(scoped_todo)
                   /\ scoped_out' = [scoped_out EXCEPT ![e] = @ + 1]
    /\ UNCHANGED <<checked, process, scoped_exit, scoped_count>>

\* The next Inits.initialize() of the constructor; it returns or throws.  An
\* exception leaves the constructor: the object never existed and its
\* destructor does not run.
scoped_initialize(raises) ==
    /\ process = "running"
    /\ scoped_frame
    /\ scoped_pc = "entering"
    /\ scoped_todo # <<>>
    /\ LET e == Head(scoped_todo) IN
         /\ scoped_log' = Append(scoped_log, Call("initialize", e, ~raises))
         /\ IF raises
              THEN /\ scoped_pc' = "unwound"
                   /\ scoped_todo' = <<>>
                   /\ UNCHANGED scoped_out
              ELSE /\ scoped_pc' = IF Tail(scoped_todo) = <<>> THEN "inside"
                                                             ELSE "entering"
                   /\ scoped_todo' = Tail(scoped_todo)
                   /\ scoped_out' = [scoped_out EXCEPT ![e] = @ + 1]
    /\ UNCHANGED <<checked, process, scoped_exit, scoped_count>>

\* The scope is left, by running off its end or by an exception thrown in it:
\* the destructor is entered.
scoped_leave(how) ==
    /\ process = "running"
    /\ scoped_frame
    /\ scoped_pc = "inside"
    /\ scoped_pc' = "leaving"
    /\ scoped_exit' = how
    /\ scoped_todo' = AssignFold(1)
    /\ UNCHANGED <<checked, process, scoped_log, scoped_out, scoped_count>>

\* The next Inits.destroy() of the destructor; it returns or throws.  The
\* destructor is noexcept: an exception reaching it calls std::terminate.
scoped_destroy(raises) ==
    /\ process = "running"
    /\ scoped_frame
    /\ scoped_pc = "leaving"
    /\ scoped_todo # <<>>
    /\ LET e == Head(scoped_todo) IN
         /\ scoped_log' = Append(scoped_log, Call("destroy", e, ~raises))
         /\ IF raises
              THEN /\ process' = "terminated"
                   /\ UNCHANGED <<scoped_pc, scoped_todo, scoped_out>>
              ELSE /\ scoped_pc' = IF Tail(scoped_todo) = <<>> THEN "left"
                                                             ELSE "leaving"
                   /\ scoped_todo' = Tail(scoped_todo)
                   /\ scoped_out' = [scoped_out EXCEPT ![e] = @ - 1]
                   /\ UNCHANGED process
    /\ UNCHANGED <<checked, scoped_exit, scoped_count>>

NextScoped ==
    \/ scoped_enter
    \/ \E raises \in BOOLEAN : scoped_initialize(raises)
    \/ \E how \in {"normal", "exception"} : scoped_leave(how)
    \/ \E raises \in BOOLEAN : scoped_destroy(raises)

SpecScoped == Init /\ [][NextScoped]_vars

\* The calls of the current scoped_initializer object, without their outcome.
LogCalls == [k \in 1 .. Len(scoped_log) |-> <<scoped_log[k].op, scoped_log[k].ent>>]

\* initialize() on 1 .. NumInits, then destroy() on NumInits .. 1.
ExpectedCalls ==
    [k \in 1 .. 2 * NumInits |->
        IF k <= NumInits THEN <<"initialize", k>>
                         ELSE <<"destroy", 2 * NumInits + 1 - k>>]

IsPrefix(a, b) == Len(a) <= Len(b) /\ \A k \in 1 .. Len(a) : a[k] = b[k]

\* C7: the calls a scoped_initializer makes are, in this order, initialize()
\* on each entity from first to last and then destroy() on each entity from
\* last to first; all the initialize() calls have been made when its
\* constructor has returned and all the destroy() calls when its destructor
\* has returned, however the scope was left.
C7_Order ==
    /\ IsPrefix(LogCalls, ExpectedCalls)
    /\ scoped_pc = "inside" => Len(scoped_log) = NumInits
    /\ scoped_pc = "left" => LogCalls = ExpectedCalls

\* A scope left by an exception whose destructor has returned.
C7_Witness ==
    /\ scoped_pc = "left"
    /\ scoped_exit = "exception"
    /\ Len(scoped_log) = 2 * NumInits

\* C8 (as claimed): when the teardown of a scoped_initializer has ended, with
\* or without a destroy() that raised, destroy() was called on every entity.
C8_AllDestroysAttempted ==
    (scoped_pc = "left" \/ (scoped_pc = "leaving" /\ process = "terminated"))
        => \A e \in Inits :
              \E k \in 1 .. Len(scoped_log) :
                  scoped_log[k].op = "destroy" /\ scoped_log[k].ent = e

\* ============================================================== manual_init
manual_get_passes_unchecked(i) == TRUE

\* ATUM_LIFETIME_ASSERT(_initialized): expands to nothing in unchecked builds.
manual_get_passes(i) == ~checked \/ manual_initialized[i]

manual_flag_after_initialize_unset(old) == old

\* #if ATUM_CHECK_LIFETIME  _initialized = true;
manual_flag_after_initialize(old) == IF checked THEN TRUE ELSE old

\* #if ATUM_CHECK_LIFETIME  _initialized = false;
manual_flag_after_destroy(old) == IF checked THEN FALSE ELSE old

\* initialize(): Initializer::init<T>(_storage.memory()), then the flag.
manual_initialize(i) ==
    /\ process = "running"
    /\ manual_frame
    /\ manual_ops < MaxManualOps
    /\ manual_ops' = manual_ops + 1
    /\ manual_storage' = [manual_storage EXCEPT ![i] = "live"]
    /\ manual_ctors' = [manual_ctors EXCEPT ![i] = @ + 1]
    /\ manual_obj' = [manual_obj EXCEPT ![i] = manual_ctors[i] + 1]
    /\ manual_reinit' = manual_reinit + (IF manual_storage[i] = "live" THEN 1 ELSE 0)
    /\ manual_initialized' = [manual_initialized EXCEPT ![i] =
                                manual_flag_after_initialize(@)]
    /\ manual_last' = [manual_last EXCEPT ![i] = "initialize"]
    /\ UNCHANGED <<checked, process, manual_dtors, manual_ret>>

\* destroy(): _storage.get().~T(), then the flag.  Running ~T() on storage
\* that holds no live T is undefined.
manual_destroy(i) ==
    /\ process = "running"
    /\ manual_frame
    /\ manual_ops < MaxManualOps
    /\ manual_ops' = manual_ops + 1
    /\ process' \in UndefinedOutcome(DestructUndefined(manual_storage[i]))
    /\ manual_storage' = [manual_storage EXCEPT ![i] = "dead"]
    /\ manual_dtors' = [manual_dtors EXCEPT ![i] = @ + 1]
    /\ manual_obj' = [manual_obj EXCEPT ![i] = 0]
    /\ manual_initialized' = [manual_initialized EXCEPT ![i] =
                                manual_flag_after_destroy(@)]
    /\ manual_last' = [manual_last EXCEPT ![i] = "destroy"]
    /\ UNCHANGED <<checked, manual_ctors, manual_reinit, manual_ret>>

\* get(), and operator* and operator-> which call it: the assertion, then
\* return _storage.get().
manual_get(i, via) ==
    /\ process = "running"
    /\ manual_frame
    /\ manual_ops < MaxManualOps
    /\ manual_ops' = manual_ops + 1
    /\ IF manual_get_passes(i)
         THEN /\ manual_ret' = [self |-> i, via |-> via, ref |-> i,
                                obj |-> manual_obj[i],
                                latest |-> manual_ctors[i],
                                after |-> manual_last[i], failed |-> FALSE]
              /\ UNCHANGED process
         ELSE /\ manual_ret' = [self |-> i, via |-> via, ref |-> 0,
                                obj |-> 0,
                                latest |-> manual_ctors[i],
                                after |-> manual_last[i], failed |-> TRUE]
              /\ process' = "assert_failed"
    /\ UNCHANGED <<checked, manual_initialized, manual_storage, manual_obj,
                   manual_ctors, manual_dtors, manual_reinit, manual_last>>

NextManual ==
    \/ \E i \in ManualInsts : manual_initialize(i)
    \/ \E i \in ManualInsts : manual_destroy(i)
    \/ \E i \in ManualInsts, via \in {"get", "operator*", "operator->"} :
          manual_get(i, via)

SpecManual == Init /\ [][NextManual]_vars

\* C9: in a checked build a get() made when the last lifecycle call on the
\* object was not initialize() (none yet, or destroy()) fails the assertion;
\* a get() made when it was initialize() passes and returns the reference to
\* the object's own storage, which holds the T that initialize() constructed.
C9_GetChecked ==
    (checked /\ manual_ret.self # 0) =>
        /\ manual_ret.after \in {"none", "destroy"} => manual_ret.failed
        /\ manual_ret.after = "initialize" =>
              /\ ~manual_ret.failed
              /\ manual_ret.ref = manual_ret.self
              /\ manual_ret.obj = manual_ret.latest
              /\ manual_ret.obj > 0

\* A checked get() that passed on an object initialized after a destroy().
C9_Witness ==
    /\ checked
    /\ manual_ret.self # 0
    /\ ~manual_ret.failed
    /\ manual_ret.after = "initialize"
    /\ manual_dtors[manual_ret.self] > 0

\* C10 (as claimed): in a checked build no T is constructed over a live T:
\* the second initialize() fails an assertion instead.
C10_NoDoubleInitialize ==
    checked => manual_reinit = 0

\* The calls on object i so far were initialize() and destroy() in turn,
\* starting and ending with initialize(), with at least one destroy().
Reinitialized(i) ==
    /\ manual_dtors[i] > 0
    /\ manual_ctors[i] = manual_dtors[i] + 1
    /\ manual_reinit = 0

\* C11 (as claimed): in a checked build an object on which destroy() has run
\* is never tracked as initialized again, in particular not after
\* initialize(); destroy(); initialize().
C11_DestroyedIsTerminal ==
    checked => \A i \in ManualInsts : Reinitialized(i) => ~manual_initialized[i]

\* C11 (amended): a checked build tracks two states: the object is tracked as
\* initialized exactly when the last lifecycle call on it was initialize(),
\* also when a destroy() came before that initialize().
C11_TwoStates ==
    checked => \A i \in ManualInsts :
                  manual_initialized[i] = (manual_last[i] = "initialize")

\* initialize(); destroy(); initialize() on one object of a checked build.
C11_Witness ==
    /\ checked
    /\ process = "running"
    /\ \E i \in ManualInsts :
          /\ manual_ctors[i] = 2
          /\ manual_dtors[i] = 1
          /\ manual_reinit = 0
          /\ manual_last[i] = "initialize"
          /\ manual_initialized[i]

\* C12 (as claimed): in a checked build ~T() never runs on an object that is
\* not initialized, so it has not run more often than T was constructed.
C12_DestroyChecked ==
    checked => \A i \in ManualInsts : manual_dtors[i] <= manual_ctors[i]

\* ------------------------------------------- nifty_init, unbalanced callers
\* Claims still held by their threads.
Held == Cardinality({t \in Threads : nifty_held[t]})

\* destroy() by a thread that holds no claim: the same code as nifty_destroy,
\* which checks nothing before the decrement.
nifty_destroy_unmatched(t) ==
    /\ process = "running"
    /\ nifty_frame
    /\ nifty_pc[t] = "idle"
    /\ ~nifty_held[t]
    /\ Held - nifty_count < MaxUnmatched
    /\ nifty_count' = nifty_count - 1
    /\ nifty_zeroReleases' = nifty_zeroReleases + (IF nifty_count = 1 THEN 1 ELSE 0)
    /\ nifty_pc' = [nifty_pc EXCEPT ![t] =
                      IF LastOne(nifty_count - 1) THEN "destruct" ELSE "idle"]
    /\ UNCHANGED <<checked, process, nifty_storage, nifty_held, nifty_got,
                   nifty_ctors, nifty_dtors, nifty_zeroClaims, nifty_claims,
                   nifty_gets, nifty_first, nifty_race>>

NextNiftyMisuse ==
    \E t \in Threads : nifty_step(t) \/ nifty_destroy_unmatched(t)

SpecNiftyMisuse == Init /\ [][NextNiftyMisuse]_vars

\* C13 (as claimed): in a checked build the count is never taken below zero:
\* a destroy() without an unmatched initialize() fails an assertion instead.
C13_UnbalancedAsserts ==
    checked => nifty_count >= 0

\* ---------------------------------------------------- lazy_init, fair threads
\* A thread inside initialize()/get() keeps running; nothing obliges a thread
\* to make a call.
lazy_run(t) ==
    \/ lazy_static_enter(t)
    \/ lazy_init_done(t)
    \/ lazy_static_publish(t)
    \/ lazy_assert(t)
    \/ lazy_return(t)

\* The threads call initialize() and get() on one object, the only one of
\* its key.
NextLazyOne ==
    \E t \in Threads :
        \/ \E op \in {"initialize", "get"} : lazy_call(t, 1, op)
        \/ lazy_static_enter(t)
        \/ lazy_init_done(t)
        \/ lazy_static_publish(t)
        \/ lazy_assert(t)
        \/ lazy_return(t)

SpecLazyFair ==
    /\ Init
    /\ [][NextLazyOne]_vars
    /\ \A t \in Threads : WF_vars(lazy_run(t))

\* The object whose storage Initializer::init was run on, if any.
Constructed == {i \in LazyInsts : lazy_storage[i] # "raw"}

\* C14: in a checked build no initialize()/get() on an object other than the
\* one that was constructed gets past the assertion, the first time or later:
\* every call that got past it or returned was made on the constructed object,
\* and the assertion fails only for a call on another object.
C14_IdentityChecked ==
    checked =>
        /\ \A t \in Threads :
              /\ lazy_pc[t] = "return" => lazy_storage[lazy_this[t]] = "live"
              /\ lazy_ret[t] # NoRet => lazy_storage[lazy_ret[t].ref] = "live"
        /\ process = "assert_failed" =>
              \E t \in Threads :
                  /\ lazy_pc[t] = "assert"
                  /\ lazy_storage[lazy_this[t]] = "raw"
                  /\ Constructed # {}

\* The assertion has failed for a call on the object that was not constructed.
C14_Witness ==
    /\ checked
    /\ process = "assert_failed"
    /\ \E t \in Threads : lazy_pc[t] = "assert" /\ lazy_this[t] \notin Constructed

\* C15: once the static is initialized it stays so and a constructed T stays
\* live, no second construction is entered, destroy() changes nothing of the
\* object, and a get() called after a destroy() on a constructed object returns
\* that object, live.
C15_Monotonic ==
    [][ /\ lazy_guard = "done" =>
              /\ lazy_guard' = "done"
              /\ lazy_ctors' = lazy_ctors
              /\ lazy_initializer' = lazy_initializer
        /\ \A i \in LazyInsts : lazy_storage[i] = "live" => lazy_storage'[i] = "live"
        /\ lazy_destroys' # lazy_destroys =>
              UNCHANGED <<lazy_guard, lazy_initializer, lazy_storage, lazy_ctors,
                          lazy_pc, lazy_ret>>
        /\ \A t \in Threads :
              (lazy_after[t] /\ lazy_ret[t] = NoRet /\ lazy_ret'[t] # NoRet) =>
                  /\ lazy_ret'[t].ref = lazy_this[t]
                  /\ lazy_ret'[t].live
      ]_vars

\* A get() called after a destroy() on the constructed object has returned it.
C15_Witness ==
    \E t \in Threads :
        /\ lazy_after[t]
        /\ lazy_pc[t] = "idle"
        /\ lazy_ret[t] # NoRet
        /\ lazy_ret[t].live
        /\ lazy_ctors = 1

\* C18: with threads that keep running, every initialize()/get() on the only
\* object of its key returns (no assertion stops the process, no caller stays
\* at the static), and a construction is entered once only.
C18_EveryCallReturns ==
    /\ [](process = "running")
    /\ \A t \in Threads : (lazy_pc[t] # "idle") ~> (lazy_pc[t] = "idle")
    /\ [](lazy_ctors <= 1 /\ (lazy_guard = "uninit" <=> lazy_ctors = 0))

\* As many calls as there are threads were made on one object and have all
\* returned, one of them having constructed T.
C18_Witness ==
    /\ \A t \in Threads : lazy_pc[t] = "idle"
    /\ lazy_calls >= NumThreads
    /\ Cardinality(lazy_used) = 1
    /\ lazy_guard = "done"
    /\ process = "running"

\* C19: in an unchecked build at most one object of the key is ever
\* constructed, no call fails, and a get() on another object returns the
\* reference to that object's own storage, in which no T was constructed.
C19_SharedGate ==
    ~checked =>
        /\ Cardinality(Constructed) <= 1
        /\ process = "running"
        /\ \A t \in Threads :
              lazy_ret[t] # NoRet =>
                  /\ lazy_ret[t].live = (lazy_ret[t].ref \in Constructed)
                  /\ lazy_ret[t].ref \notin Constructed
                        => lazy_storage[lazy_ret[t].ref] = "raw"

\* get() on the second object has returned its raw storage.
C19_Witness ==
    /\ ~checked
    /\ \E t \in Threads :
          /\ lazy_ret[t] # NoRet
          /\ ~lazy_ret[t].live
          /\ lazy_storage[lazy_ret[t].ref] = "raw"
          /\ Constructed # {}

\* C16: with every destroy() made by a thread that holds a claim, the count
\* is the number of claims held, 0 at the start and never negative.
C16_CountNonNegative ==
    /\ nifty_count >= 0
    /\ nifty_count = Held

\* Two claims were made and released and the count is back at 0.
C16_Witness ==
    /\ AllIdle
    /\ nifty_count = 0
    /\ nifty_claims = 2
    /\ Held = 0
    /\ nifty_zeroReleases = 1

\* C17: when the calls do not overlap, a construction is entered for exactly
\* the initialize() calls that found the count at 0 and a destruction for
\* exactly the destroy() calls that left it at 0, each on storage in the right
\* state; between calls T is live exactly when the count is positive; T is
\* constructed again when the count leaves 0 again.
C17_SequentialCrossings ==
    /\ ~nifty_race
    /\ process = "running"
    /\ \A t \in Threads :
          /\ nifty_pc[t] \in {"construct", "constructing"} => nifty_count = 1
          /\ nifty_pc[t] \in {"destruct", "destructing"} => nifty_count = 0
    /\ AllIdle =>
          /\ (nifty_storage = "live") = (nifty_count > 0)
          /\ nifty_ctors = nifty_zeroClaims
          /\ nifty_dtors = nifty_zeroReleases
          /\ nifty_ctors = nifty_dtors + (IF nifty_count > 0 THEN 1 ELSE 0)

\* T was destroyed when the count came back to 0 and constructed anew by the
\* next initialize().
C17_Witness ==
    /\ AllIdle
    /\ nifty_count = 1
    /\ nifty_ctors = 2
    /\ nifty_dtors = 1
    /\ nifty_storage = "live"

\* C20: an initialize() that raised is the last call its scoped_initializer
\* object makes: when the constructor is left by the exception of the k-th
\* initialize(), the object has called initialize() on entities 1 .. k and
\* nothing else, so entities 1 .. k-1 keep what their initialize() did.
C20_NoTeardownAfterFailedEntry ==
    /\ \A k \in 1 .. Len(scoped_log) :
          (scoped_log[k].op = "initialize" /\ ~scoped_log[k].ok)
              => (k = Len(scoped_log) /\ scoped_pc = "unwound")
    /\ scoped_pc = "unwound" =>
          /\ scoped_todo = <<>>
          /\ Len(scoped_log) \in Inits
          /\ \A k \in 1 .. Len(scoped_log) :
                scoped_log[k] = Call("initialize", k, k < Len(scoped_log))
          /\ \A e \in 1 .. Len(scoped_log) - 1 : scoped_out[e] >= 1

\* The second initialize() raised: the first entity stays initialized, the
\* third was not reached.
C20_Witness ==
    /\ scoped_pc = "unwound"
    /\ Len(scoped_log) = 2
    /\ scoped_out[1] >= 1

====
